---- MODULE Spec2Model ----
(***************************************************************************)
(* The SKYNET playground page (frontend/app/playground/page.tsx), the      *)
(* ChatHistory component it mounts, the Next.js /api rewrite and the       *)
(* backend chat-history resource, as one state machine.                    *)
(*                                                                         *)
(* React state is one variable per useState cell.  A handler runs against  *)
(* the state of the render that created it: the asynchronous part of       *)
(* handleSendMessage and of checkModelHealth therefore carries the values  *)
(* it captured (the closure) in the in-flight record, and uses those, not  *)
(* the current state, when it resumes.  Effects run in the commit of the   *)
(* render whose dependencies changed, inside the action that changed them. *)
(*                                                                         *)
(* Text is a sequence of symbols; the fixed texts of the source are one    *)
(* symbol each, user input and backend text are drawn from small sets.     *)
(***************************************************************************)
EXTENDS Integers, Sequences, FiniteSets, TLC

\* ------------------------------------------------------------------ bounds
MaxSends == 2
MaxNewChats == 1
MaxSelects == 1
MaxHistoryOpens == 1
MaxFilterToggles == 1
MaxCreates == 1
MaxAdds == 1
MaxUploads == 1
MaxAiSends == 1

\* ------------------------------------------------------------------- text
Whitespace == {" "}

\* JavaScript undefined, where a text field may be absent
UNDEF == <<"<undefined>">>

RECURSIVE trimStart(_)
trimStart(s) ==
  IF s = <<>> THEN <<>>
  ELSE IF Head(s) \in Whitespace THEN trimStart(Tail(s)) ELSE s

RECURSIVE trimEnd(_)
trimEnd(s) ==
  IF s = <<>> THEN <<>>
  ELSE IF s[Len(s)] \in Whitespace THEN trimEnd(SubSeq(s, 1, Len(s) - 1)) ELSE s

\* String.prototype.trim
trim(s) == trimEnd(trimStart(s))

\* JavaScript truthiness of a text-or-undefined value
Truthy(v) == v # UNDEF /\ v # <<>>

\* a || b on text-or-undefined values
OrElse(a, b) == IF Truthy(a) THEN a ELSE b

TitleLen == 50

\* String.prototype.slice(0, n)
slice0(s, n) == SubSeq(s, 1, IF Len(s) < n THEN Len(s) ELSE n)

ErrorPrefix == <<"Error: ">>
GenerateFallback == <<"Failed to generate response. Please configure API keys for the model provider.">>
ConnectFailure == <<"Failed to connect to the model. Please check your connection and try again.">>
NewChatTitle == <<"New Chat">>

\* what the user can type into the textarea
InputTexts == {<<" ">>, <<" ", "a">>}

\* ----------------------------------------------------------------- models
Providers == {"openai", "gemini"}

GptModel == [id |-> "openai-gpt-4o", provider |-> "openai", type |-> "api", checking |-> FALSE]
GeminiModel == [id |-> "gemini-2.0-flash-exp", provider |-> "gemini", type |-> "api", checking |-> FALSE]
CustomModel == [id |-> "custom-1", provider |-> "", type |-> "custom", checking |-> FALSE]

ModelIds == {GptModel.id, GeminiModel.id, CustomModel.id}

\* the lists GET /api/models may return
ModelLists ==
  { <<>>, <<GptModel>>, <<GptModel, GeminiModel>>, <<CustomModel>>,
    <<GptModel, CustomModel>>, <<GptModel, GeminiModel, CustomModel>> }

\* the provider sets GET /api/llm/api-keys may return keys for
KeySets == SUBSET Providers

NoHealth == [i \in ModelIds |-> "undefined"]

\* ------------------------------------------------------------------ state
VARIABLES
  messages,           \* useState<Message[]>
  input,              \* useState('')
  loading,            \* useState(false)
  models,             \* useState<Model[]>
  selectedModel,      \* useState<Model | null>: <<>> is null, <<m>> a model
  apiKeys,            \* useState<any>({}): the providers that have an entry
  modelHealthStatus,  \* useState<Record<string, boolean>>: "true", "false", "undefined"
  checkingModels,     \* useState(false)
  sessionId,          \* useState(() => Date.now().toString())
  showHistory,        \* useState(false)
  now,                \* the clock read by Date.now() and new Date()
  fetching,           \* the mount requests still in flight
  rounds,             \* every checkModelHealth call: its closure, pending probes, results
  healthRequests,     \* the POST /api/llm/check-model-health requests sent
  lastProbe,          \* the latest health response received
  gen,                \* the handleSendMessage call in flight: its closure and position
  generateRequests,   \* the POST /api/llm/generate requests sent
  saves,              \* the POST /api/chat-history requests sent
  exchange,           \* the latest completed generate exchange
  sends,              \* handleSendMessage calls that passed the guard
  newChats,           \* startNewChat calls
  selects,            \* handleSelectModel calls
  chatHistoryTable,   \* backend: the rows of chat_history
  savedOk,            \* session ids of saves that reached the server
  history,            \* the ChatHistory component: its state while mounted
  historyOpens,       \* times the history sidebar was opened
  switched,           \* timestamps of the messages on screen at the latest model switch
  fresh,              \* the latest startNewChat: its session id and the timestamps cleared
  showModelUpload,    \* useState(false): the upload dialog
  keyAdd,             \* the handleAddApiKey call in flight: its provider and position
  upload,             \* the handleModelUpload call in flight and its position
  alerts,             \* the alert() texts shown so far
  keyTable,           \* backend: the providers an API key is stored for
  modelTable,         \* backend: the model registry
  deleting,           \* ChatHistory: session ids whose DELETE is in flight
  lastDelete,         \* the latest DELETE that settled and the list it met
  modelsPage,         \* the ModelsPage component
  collab,             \* the CollaboratePage component
  collabTable,        \* backend: the collaboration sessions
  editor,             \* the code-editor page
  assistant           \* the AI assistant of the CodeEditor component

vars == << messages, input, loading, models, selectedModel, apiKeys,
           modelHealthStatus, checkingModels, sessionId, showHistory, now,
           fetching, rounds, healthRequests, lastProbe, gen, generateRequests,
           saves, exchange, sends, newChats, chatHistoryTable, savedOk,
           history, historyOpens, switched, fresh, selects,
           showModelUpload, keyAdd, upload, alerts, keyTable, modelTable,
           deleting, lastDelete, modelsPage, collab, collabTable, editor,
           assistant >>

modelVars == << models, apiKeys, modelHealthStatus, checkingModels, rounds,
                healthRequests >>
chatVars == << input, loading, sessionId, gen, generateRequests, saves,
               exchange, sends >>
countVars == << newChats, selects >>
backendVars == << chatHistoryTable, savedOk >>
historyVars == << showHistory, history, historyOpens >>
setupVars == << showModelUpload, keyAdd, upload, alerts, keyTable, modelTable >>
deleteVars == << deleting, lastDelete >>
pageVars == << modelsPage, collab, collabTable, editor, assistant >>

\* ------------------------------------------------- the displayed model list
\* the filter without its API-key test
filteredModelsNoKeyGate(ms, keys, health) ==
  SelectSeq(ms, LAMBDA m :
    IF m.type = "custom" THEN TRUE
    ELSE m.checking \/ health[m.id] # "false")

\* the filter with custom models behind the API-key test as well
filteredModelsKeyGateForAll(ms, keys, health) ==
  SelectSeq(ms, LAMBDA m :
    IF keys = {} THEN FALSE
    ELSE IF m.type = "custom" THEN TRUE
    ELSE IF m.provider \notin keys THEN FALSE
    ELSE m.checking \/ health[m.id] # "false")

\* models.filter(...) of lines 61-66, for given state values
filteredModelsOf(ms, keys, health) ==
  SelectSeq(ms, LAMBDA m :
    IF m.type = "custom" THEN TRUE
    ELSE IF m.provider \notin keys THEN FALSE
    ELSE m.checking \/ health[m.id] # "false")

filteredModels == filteredModelsOf(models, apiKeys, modelHealthStatus)

Ids(ms) == {ms[i].id : i \in 1..Len(ms)}

Timestamps(msgs) == {msgs[i].timestamp : i \in 1..Len(msgs)}

\* the effect of lines 69-80, run with the render's filtered list and selection
AutoSelect(fm, sel, msgs) ==
  IF Len(fm) > 0
  THEN IF sel = <<>> \/ sel[1].id \notin Ids(fm)
       THEN [selectedModel |-> <<fm[1]>>, messages |-> <<>>, switch |-> TRUE]
       ELSE [selectedModel |-> sel, messages |-> msgs, switch |-> FALSE]
  ELSE [selectedModel |-> <<>>, messages |-> <<>>, switch |-> FALSE]

\* the commit of a render with models nm, keys nk and health nh: the
\* auto-select effect runs when its dependencies [filteredModels.length, apiKeys] changed
AutoSelectCommit(nm, nk, nh, keysChanged) ==
  LET fm == filteredModelsOf(nm, nk, nh)
      run == keysChanged \/ Len(fm) # Len(filteredModels)
      r == AutoSelect(fm, selectedModel, messages)
  IN /\ selectedModel' = IF run THEN r.selectedModel ELSE selectedModel
     /\ messages' = IF run THEN r.messages ELSE messages
     /\ switched' = IF run /\ r.switch THEN Timestamps(messages) ELSE switched

\* the models checkModelHealth probes, in list order (lines 140-141)
Probed(ms, keys) ==
  SelectSeq(ms, LAMBDA m : m.type # "custom" /\ m.provider \in keys)

\* the trial requests of one round, one per probed model (lines 142-151)
ProbeRequests(r, ms, keys) ==
  [i \in 1..Len(Probed(ms, keys)) |-> [round |-> r, model |-> Probed(ms, keys)[i].id]]

\* checkModelHealth up to its await (lines 135-165), called by the effect of
\* lines 54-58 when its dependencies [apiKeys, models.length] changed.  With
\* nothing to probe Promise.all([]) resolves at once and lines 166-167 follow.
HealthEffect(nm, nk, nh, keysChanged) ==
  LET run == (keysChanged \/ Len(nm) # Len(models)) /\ nk # {} /\ Len(nm) > 0
      r == Len(rounds) + 1
      probed == Ids(Probed(nm, nk))
      round == [models |-> nm, apiKeys |-> nk, pending |-> probed,
                healthResults |-> NoHealth, done |-> probed = {}]
  IN IF ~run
     THEN /\ modelHealthStatus' = nh
          /\ UNCHANGED << checkingModels, rounds, healthRequests >>
     ELSE /\ rounds' = Append(rounds, round)
          /\ healthRequests' = healthRequests \o ProbeRequests(r, nm, nk)
          /\ checkingModels' = (probed # {})
          /\ modelHealthStatus' = IF probed = {} THEN NoHealth ELSE nh

\* --------------------------------------------------------------- backend
\* the rows the database holds before the page is opened
PriorSession ==
  [session_id |-> 1, model_id |-> GptModel.id,
   messages |-> << [role |-> "user", content |-> <<"a">>, timestamp |-> [iso |-> 2]],
                   [role |-> "assistant", content |-> <<"r">>, timestamp |-> [iso |-> 3]] >>,
   title |-> <<"a">>]

SecondSession ==
  [session_id |-> 2, model_id |-> GeminiModel.id,
   messages |-> << [role |-> "user", content |-> <<"b">>, timestamp |-> [iso |-> 3]],
                   [role |-> "assistant", content |-> <<"r">>, timestamp |-> [iso |-> 4]] >>,
   title |-> <<"b">>]

ThirdSession ==
  [session_id |-> 3, model_id |-> GptModel.id,
   messages |-> << [role |-> "user", content |-> <<"c">>, timestamp |-> [iso |-> 4]],
                   [role |-> "assistant", content |-> <<"e">>, timestamp |-> [iso |-> 4]] >>,
   title |-> <<"c">>]

PriorTables == { <<>>, <<ThirdSession, SecondSession, PriorSession>> }

MountTime == 5

\* ------------------------------------------------------------------- Init
Idle == [pc |-> "idle"]
NoExchange == [n |-> 0]
HistoryUnmounted == [pc |-> "unmounted", chatSessions |-> <<>>, error |-> FALSE]

\* handleModelUpload has not been called
NoUpload == [pc |-> "idle", calls |-> 0]

\* no DELETE has settled yet
NoDelete == [n |-> 0, deleted |-> {}]

\* ModelsPage after its first render: the mount effect has called fetchModels
ModelsPageMount ==
  [models |-> <<>>, loading |-> TRUE, showFreeApiModelsOnly |-> FALSE,
   fetches |-> 1, answered |-> 0, received |-> <<>>]

\* CollaboratePage after its first render: the mount effect has called fetchSessions
CollaboratePageMount ==
  [sessions |-> <<>>, loading |-> TRUE, showCreateModal |-> FALSE,
   newSessionName |-> <<>>, newSessionDesc |-> <<>>,
   fetching |-> TRUE, create |-> Idle, created |-> 0, done |-> NoExchange]

\* the code-editor page after its first render; requested holds the URLs
\* the page has sent a request to
CodeEditorMount ==
  [output |-> <<>>, testCode |-> <<>>, loading |-> FALSE, loadingTests |-> FALSE,
   loadingAISuggestion |-> FALSE, aiSuggestion |-> <<>>, activeTab |-> "output",
   requested |-> {}]

\* the CodeEditor component's assistant panel after its first render: the
\* mount effect has called fetchAvailableModels
AssistantMount ==
  [aiMessages |-> <<>>, aiInput |-> <<>>, isAiLoading |-> FALSE,
   selectedAiModel |-> <<>>, fetching |-> TRUE, sent |-> 0]

\* the pages after their first render, whatever the backend stores
InitPage ==
  /\ messages = <<>>
  /\ input = <<>>
  /\ loading = FALSE
  /\ models = <<>>
  /\ selectedModel = <<>>
  /\ apiKeys = {}
  /\ modelHealthStatus = NoHealth
  /\ checkingModels = FALSE
  /\ sessionId = MountTime
  /\ showHistory = FALSE
  /\ now = MountTime + 1
  /\ fetching = {"models", "apiKeys"}
  /\ rounds = <<>>
  /\ healthRequests = <<>>
  /\ lastProbe = [round |-> 0]
  /\ gen = Idle
  /\ generateRequests = <<>>
  /\ saves = <<>>
  /\ exchange = NoExchange
  /\ sends = 0
  /\ newChats = 0
  /\ selects = 0
  /\ chatHistoryTable \in PriorTables
  /\ savedOk = {}
  /\ history = HistoryUnmounted
  /\ historyOpens = 0
  /\ switched = {}
  /\ fresh = [sessionId |-> MountTime, cleared |-> {}]
  /\ showModelUpload = FALSE
  /\ keyAdd = Idle
  /\ upload = NoUpload
  /\ alerts = <<>>
  /\ deleting = {}
  /\ lastDelete = NoDelete
  /\ modelsPage = ModelsPageMount
  /\ collab = CollaboratePageMount
  /\ collabTable = <<>>
  /\ editor = CodeEditorMount
  /\ assistant = AssistantMount

\* the pages opened against a backend that stores no key and no model yet
Init ==
  /\ InitPage
  /\ keyTable = {}
  /\ modelTable = <<>>

\* the pages opened against a backend that already stores a key for each
\* provider and the models registered with them
InitStored ==
  /\ InitPage
  /\ keyTable = Providers
  /\ modelTable = <<GptModel, GeminiModel>>

\* ------------------------------------------------- loading models and keys
\* fetchModels (lines 88-103): an OK response replaces the list
FetchModelsOk(list) ==
  /\ "models" \in fetching
  /\ fetching' = fetching \ {"models"}
  /\ models' = list
  /\ apiKeys' = apiKeys
  /\ HealthEffect(list, apiKeys, modelHealthStatus, FALSE)
  /\ AutoSelectCommit(list, apiKeys, modelHealthStatus, FALSE)
  /\ UNCHANGED << setupVars, deleteVars, pageVars, chatVars, backendVars, historyVars, now, lastProbe, countVars, fresh >>

\* fetchModels: a non-OK response or a thrown error is only logged
FetchModelsFail ==
  /\ "models" \in fetching
  /\ fetching' = fetching \ {"models"}
  /\ UNCHANGED << setupVars, deleteVars, pageVars, messages, selectedModel, switched, modelVars, chatVars,
                  backendVars, historyVars, now, lastProbe, countVars, fresh >>

\* fetchApiKeys (lines 117-133): an OK response builds a new provider map
FetchApiKeysOk(keys) ==
  /\ "apiKeys" \in fetching
  /\ fetching' = fetching \ {"apiKeys"}
  /\ apiKeys' = keys
  /\ models' = models
  /\ HealthEffect(models, keys, modelHealthStatus, TRUE)
  /\ AutoSelectCommit(models, keys, modelHealthStatus, TRUE)
  /\ UNCHANGED << setupVars, deleteVars, pageVars, chatVars, backendVars, historyVars, now, lastProbe, countVars, fresh >>

\* fetchApiKeys: a non-OK response or a thrown error changes nothing
FetchApiKeysFail ==
  /\ "apiKeys" \in fetching
  /\ fetching' = fetching \ {"apiKeys"}
  /\ UNCHANGED << setupVars, deleteVars, pageVars, messages, selectedModel, switched, modelVars, chatVars,
                  backendVars, historyVars, now, lastProbe, countVars, fresh >>

\* the responses a trial request can get
HealthOutcomes ==
  { [thrown |-> TRUE,  ok |-> FALSE, json |-> FALSE, available |-> "undefined"],
    [thrown |-> FALSE, ok |-> TRUE,  json |-> TRUE,  available |-> "true"],
    [thrown |-> FALSE, ok |-> TRUE,  json |-> TRUE,  available |-> "false"],
    [thrown |-> FALSE, ok |-> TRUE,  json |-> TRUE,  available |-> "undefined"],
    [thrown |-> FALSE, ok |-> TRUE,  json |-> FALSE, available |-> "undefined"],
    [thrown |-> FALSE, ok |-> FALSE, json |-> TRUE,  available |-> "true"] }

\* the probe's result without the response.ok test
ProbeResultIgnoresStatus(o) ==
  IF o.thrown THEN FALSE
  ELSE IF o.json THEN o.available = "true" ELSE FALSE

\* the value one probe stores in healthResults (lines 143-162)
ProbeResult(o) ==
  IF o.thrown THEN FALSE
  ELSE IF o.ok
       THEN IF o.json THEN o.available = "true" ELSE FALSE
       ELSE FALSE

BoolText(b) == IF b THEN "true" ELSE "false"

\* one trial request of round r settles; when it is the round's last,
\* Promise.all resolves and lines 166-167 publish the round's results
HealthRespond(r, id, o) ==
  /\ r \in 1..Len(rounds)
  /\ id \in rounds[r].pending
  /\ LET results == [rounds[r].healthResults EXCEPT ![id] = BoolText(ProbeResult(o))]
         pending == rounds[r].pending \ {id}
     IN /\ rounds' = [rounds EXCEPT ![r] = [@ EXCEPT !.healthResults = results,
                                                  !.pending = pending,
                                                  !.done = (pending = {})]]
        /\ lastProbe' = [round |-> r, model |-> id, outcome |-> o]
        /\ IF pending = {}
           THEN /\ modelHealthStatus' = results
                /\ checkingModels' = FALSE
                /\ AutoSelectCommit(models, apiKeys, results, FALSE)
           ELSE UNCHANGED << modelHealthStatus, checkingModels, selectedModel,
                             messages, switched >>
  /\ UNCHANGED << setupVars, deleteVars, pageVars, models, apiKeys, healthRequests, fetching, chatVars,
                  backendVars, historyVars, now, countVars, fresh >>

\* ------------------------------------------------------------------ dates
InvalidDate == -1

\* new Date(text) read as the time the page was mounted
ParseDateAsMountTime(t) == MountTime

\* Date.prototype.toISOString of a valid date
toISOString(d) == [iso |-> d]

\* new Date(text): the instant an ISO text names, Invalid Date for other text
ParseDate(t) == IF t.iso >= 0 THEN t.iso ELSE InvalidDate

\* ------------------------------------------------- routes and the backend
\* the URL the playground posts a save to, relative to the Next.js server
SaveUrl == <<"api", "chat-history">>

\* the path of the URL ChatHistory reads, on http://localhost:8000 itself
ChatHistoryUrl == <<"api", "chat-history">>

\* the rewrite of next.config.js: /api/:path* goes to the backend as /:path*
Rewrite(path) == IF path # <<>> /\ Head(path) = "api" THEN Tail(path) ELSE path

\* the backend route that serves chat history
BackendChatRoute == <<"api", "chat-history">>

\* POST on the backend: create or update the row of the body's session id;
\* a path that is no route answers 404 and stores nothing
BackendPost(path, body, table) ==
  IF path # BackendChatRoute THEN table
  ELSE <<body>> \o SelectSeq(table, LAMBDA row : row.session_id # body.session_id)

\* GET on the backend: every row, latest update first
BackendGet(path, table) ==
  IF path # BackendChatRoute THEN [ok |-> FALSE, rows |-> <<>>]
  ELSE [ok |-> TRUE, rows |-> table]

\* ------------------------------------------------------------------- chat
\* the textarea's onChange; it is disabled without a model or while loading
TypeInput(text) ==
  /\ selectedModel # <<>>
  /\ ~loading
  /\ input' = text
  /\ UNCHANGED << setupVars, deleteVars, pageVars, messages, selectedModel, switched, modelVars, loading,
                  sessionId, gen, generateRequests, saves, exchange, sends,
                  backendVars, historyVars, now, fetching, lastProbe, countVars, fresh >>

\* handleSendMessage without its setLoading(true)
HandleSendMessageKeepsLoading ==
  /\ trim(input) # <<>>
  /\ selectedModel # <<>>
  /\ ~loading
  /\ sends < MaxSends
  /\ LET userMessage == [role |-> "user", content |-> input, timestamp |-> now]
         updatedMessages == Append(messages, userMessage)
     IN /\ messages' = updatedMessages
        /\ gen' = [pc |-> "generate", updatedMessages |-> updatedMessages,
                   selectedModel |-> selectedModel, sessionId |-> sessionId]
        /\ generateRequests' = Append(generateRequests,
                                 [prompt |-> input, model_id |-> selectedModel[1].id])
  /\ input' = <<>>
  /\ loading' = loading
  /\ now' = now + 1
  /\ sends' = sends + 1
  /\ UNCHANGED << setupVars, deleteVars, pageVars, selectedModel, switched, modelVars, sessionId, saves, exchange,
                  backendVars, historyVars, fetching, lastProbe, countVars, fresh >>

\* handleSendMessage up to its first await (lines 170-197); Send and the
\* textarea are disabled while loading (lines 614, 618)
HandleSendMessage ==
  /\ trim(input) # <<>>
  /\ selectedModel # <<>>
  /\ ~loading
  /\ sends < MaxSends
  /\ LET userMessage == [role |-> "user", content |-> input, timestamp |-> now]
         updatedMessages == Append(messages, userMessage)
     IN /\ messages' = updatedMessages
        /\ gen' = [pc |-> "generate", updatedMessages |-> updatedMessages,
                   selectedModel |-> selectedModel, sessionId |-> sessionId]
        /\ generateRequests' = Append(generateRequests,
                                 [prompt |-> input, model_id |-> selectedModel[1].id])
  /\ input' = <<>>
  /\ loading' = TRUE
  /\ now' = now + 1
  /\ sends' = sends + 1
  /\ UNCHANGED << setupVars, deleteVars, pageVars, selectedModel, switched, modelVars, sessionId, saves, exchange,
                  backendVars, historyVars, fetching, lastProbe, countVars, fresh >>

\* the responses POST /api/llm/generate can get
GenerateOutcomes ==
  { [thrown |-> TRUE,  ok |-> FALSE, json |-> FALSE, success |-> FALSE, response |-> UNDEF, error |-> UNDEF, detail |-> UNDEF],
    [thrown |-> FALSE, ok |-> FALSE, json |-> FALSE, success |-> FALSE, response |-> UNDEF, error |-> UNDEF, detail |-> UNDEF],
    [thrown |-> FALSE, ok |-> TRUE,  json |-> TRUE,  success |-> TRUE,  response |-> <<"r">>, error |-> UNDEF, detail |-> UNDEF],
    [thrown |-> FALSE, ok |-> TRUE,  json |-> TRUE,  success |-> TRUE,  response |-> <<>>,  error |-> UNDEF, detail |-> UNDEF],
    [thrown |-> FALSE, ok |-> TRUE,  json |-> TRUE,  success |-> FALSE, response |-> UNDEF, error |-> <<"e">>, detail |-> UNDEF],
    [thrown |-> FALSE, ok |-> TRUE,  json |-> TRUE,  success |-> FALSE, response |-> UNDEF, error |-> UNDEF, detail |-> UNDEF],
    [thrown |-> FALSE, ok |-> FALSE, json |-> TRUE,  success |-> FALSE, response |-> UNDEF, error |-> <<"e">>, detail |-> UNDEF],
    [thrown |-> FALSE, ok |-> FALSE, json |-> TRUE,  success |-> FALSE, response |-> UNDEF, error |-> UNDEF, detail |-> <<"d">>] }

\* the assistant message without the fallback for a missing error text
AssistantContentNoFallback(o) ==
  IF o.thrown \/ ~o.json THEN ConnectFailure
  ELSE IF o.ok /\ o.success THEN o.response
  ELSE ErrorPrefix \o (IF o.error = UNDEF THEN <<"undefined">> ELSE o.error)

\* the content of the assistant message handleSendMessage appends (lines 199-228)
AssistantContent(o) ==
  IF o.thrown \/ ~o.json THEN ConnectFailure
  ELSE IF o.ok /\ o.success THEN o.response
  ELSE ErrorPrefix \o OrElse(o.error, GenerateFallback)

\* saveChatHistory returning early unless a conversation is already under way
SaveRequestSkipsFirstExchange(sel, sid, messagesToSave) ==
  IF sel = <<>> \/ Len(messagesToSave) <= 2 THEN <<>>
  ELSE << [session_id |-> sid,
           model_id |-> sel[1].id,
           messages |-> [i \in 1..Len(messagesToSave) |->
                           [role |-> messagesToSave[i].role,
                            content |-> messagesToSave[i].content,
                            timestamp |-> toISOString(messagesToSave[i].timestamp)]],
           title |-> OrElse(slice0(messagesToSave[1].content, TitleLen), NewChatTitle)] >>

\* the request saveChatHistory sends, <<>> when it sends none (lines 234-256):
\* it returns early without a model or messages, and toISOString throws on an
\* invalid date inside the try
SaveRequest(sel, sid, messagesToSave) ==
  IF sel = <<>> \/ Len(messagesToSave) = 0 THEN <<>>
  ELSE IF InvalidDate \in Timestamps(messagesToSave) THEN <<>>
  ELSE << [session_id |-> sid,
           model_id |-> sel[1].id,
           messages |-> [i \in 1..Len(messagesToSave) |->
                           [role |-> messagesToSave[i].role,
                            content |-> messagesToSave[i].content,
                            timestamp |-> toISOString(messagesToSave[i].timestamp)]],
           title |-> OrElse(slice0(messagesToSave[1].content, TitleLen), NewChatTitle)] >>

\* the generate request settles with saveChatHistory called but not awaited:
\* the finally block resets loading while the save is in flight
GenerateRespondWithoutAwait(o) ==
  /\ gen.pc = "generate"
  /\ LET assistantMessage == [role |-> "assistant", content |-> AssistantContent(o),
                              timestamp |-> now]
         finalMessages == Append(gen.updatedMessages, assistantMessage)
         request == SaveRequest(gen.selectedModel, gen.sessionId, finalMessages)
     IN /\ messages' = finalMessages
        /\ saves' = saves \o request
        /\ exchange' = [n |-> sends, outcome |-> o,
                        updatedMessages |-> gen.updatedMessages,
                        selectedModel |-> gen.selectedModel,
                        sessionId |-> gen.sessionId,
                        finalMessages |-> finalMessages]
        /\ gen' = IF request = <<>> THEN Idle ELSE [gen EXCEPT !.pc = "save"]
        /\ loading' = FALSE
  /\ now' = now + 1
  /\ UNCHANGED << setupVars, deleteVars, pageVars, selectedModel, switched, modelVars, input, sessionId,
                  generateRequests, sends, backendVars, historyVars, fetching,
                  lastProbe, countVars, fresh >>

\* the generate request settles: lines 199-228 append the assistant message
\* and call saveChatHistory, with the model and session id of the render
\* that sent the message
GenerateRespond(o) ==
  /\ gen.pc = "generate"
  /\ LET assistantMessage == [role |-> "assistant", content |-> AssistantContent(o),
                              timestamp |-> now]
         finalMessages == Append(gen.updatedMessages, assistantMessage)
         request == SaveRequest(gen.selectedModel, gen.sessionId, finalMessages)
     IN /\ messages' = finalMessages
        /\ saves' = saves \o request
        /\ exchange' = [n |-> sends, outcome |-> o,
                        updatedMessages |-> gen.updatedMessages,
                        selectedModel |-> gen.selectedModel,
                        sessionId |-> gen.sessionId,
                        finalMessages |-> finalMessages]
        /\ IF request = <<>>
           THEN gen' = Idle /\ loading' = FALSE
           ELSE gen' = [gen EXCEPT !.pc = "save"] /\ loading' = loading
  /\ now' = now + 1
  /\ UNCHANGED << setupVars, deleteVars, pageVars, selectedModel, switched, modelVars, input, sessionId,
                  generateRequests, sends, backendVars, historyVars, fetching,
                  lastProbe, countVars, fresh >>

\* the save request settles (its response is not looked at), then the
\* finally block of line 230 runs
SaveSettle(delivered) ==
  /\ gen.pc = "save"
  /\ gen' = Idle
  /\ loading' = FALSE
  /\ IF delivered
     THEN /\ chatHistoryTable' = BackendPost(Rewrite(SaveUrl), saves[Len(saves)], chatHistoryTable)
          /\ savedOk' = savedOk \cup {saves[Len(saves)].session_id}
     ELSE UNCHANGED << chatHistoryTable, savedOk >>
  /\ UNCHANGED << setupVars, deleteVars, pageVars, messages, selectedModel, switched, modelVars, input, sessionId,
                  generateRequests, saves, exchange, sends, historyVars, now,
                  fetching, lastProbe, countVars, fresh >>

\* handleSelectModel (lines 83-86), from a model button that is not disabled
HandleSelectModel(i) ==
  /\ i \in 1..Len(filteredModels)
  /\ modelHealthStatus[filteredModels[i].id] # "false"
  /\ selects < MaxSelects
  /\ selects' = selects + 1
  /\ selectedModel' = <<filteredModels[i]>>
  /\ messages' = <<>>
  /\ switched' = Timestamps(messages)
  /\ UNCHANGED << setupVars, deleteVars, pageVars, modelVars, chatVars, backendVars, historyVars, now, fetching,
                  lastProbe, newChats, fresh >>

\* startNewChat (lines 270-273)
StartNewChat ==
  /\ newChats < MaxNewChats
  /\ newChats' = newChats + 1
  /\ sessionId' = now
  /\ messages' = <<>>
  /\ now' = now + 1
  /\ fresh' = [sessionId |-> now, cleared |-> Timestamps(messages)]
  /\ UNCHANGED << setupVars, deleteVars, pageVars, selectedModel, switched, modelVars, input, loading, gen,
                  generateRequests, saves, exchange, sends, backendVars,
                  historyVars, fetching, lastProbe, selects >>

\* ------------------------------------------------------------ ChatHistory
\* the header's history button (line 343): opening mounts ChatHistory, whose
\* mount effect calls loadChatHistory; closing unmounts it
ToggleHistory ==
  /\ showHistory' = ~showHistory
  /\ IF showHistory
     THEN history' = HistoryUnmounted /\ historyOpens' = historyOpens
     ELSE /\ historyOpens < MaxHistoryOpens
          /\ historyOpens' = historyOpens + 1
          /\ history' = [pc |-> "loading", chatSessions |-> <<>>, error |-> FALSE]
  /\ UNCHANGED << setupVars, deleteVars, pageVars, messages, selectedModel, switched, modelVars, chatVars,
                  backendVars, now, fetching, lastProbe, countVars, fresh >>

\* loadChatHistory settles (part_003 lines 227-242)
LoadChatHistoryRespond(reached) ==
  /\ history.pc = "loading"
  /\ LET response == BackendGet(ChatHistoryUrl, chatHistoryTable)
     IN IF reached /\ response.ok
        THEN history' = [pc |-> "ready", chatSessions |-> response.rows, error |-> FALSE]
        ELSE history' = [history EXCEPT !.pc = "ready", !.error = TRUE]
  /\ UNCHANGED << setupVars, deleteVars, pageVars, messages, selectedModel, switched, modelVars, chatVars,
                  backendVars, showHistory, historyOpens, now, fetching,
                  lastProbe, countVars, fresh >>

\* the Refresh button, shown once loading is over
RefreshHistory ==
  /\ history.pc = "ready"
  /\ history' = [history EXCEPT !.pc = "loading"]
  /\ UNCHANGED << setupVars, deleteVars, pageVars, messages, selectedModel, switched, modelVars, chatVars,
                  backendVars, showHistory, historyOpens, now, fetching,
                  lastProbe, countVars, fresh >>

\* a click on a listed conversation: onLoadChat is loadChat (lines 258-268)
LoadChat(i) ==
  /\ history.pc = "ready"
  /\ i \in 1..Len(history.chatSessions)
  /\ LET chat == history.chatSessions[i]
         loaded == [k \in 1..Len(chat.messages) |->
                      [role |-> chat.messages[k].role,
                       content |-> chat.messages[k].content,
                       timestamp |-> ParseDate(chat.messages[k].timestamp)]]
     IN /\ sessionId' = chat.session_id
        /\ messages' = loaded
        /\ switched' = switched \ Timestamps(loaded)
  /\ showHistory' = FALSE
  /\ history' = HistoryUnmounted
  /\ UNCHANGED << setupVars, deleteVars, pageVars, selectedModel, modelVars, input, loading, gen, generateRequests,
                  saves, exchange, sends, backendVars, historyOpens, now,
                  fetching, lastProbe, countVars, fresh >>

\* -------------------------------------------------------- deleting a chat
\* the URL deleteChat addresses on http://localhost:8000 itself (part_003 line 250)
ChatDeleteUrl(sid) == [route |-> <<"api", "chat-history">>, id |-> sid]

\* DELETE on the backend: the row of the session id is removed; a path that
\* is no route, or a session that has no row, answers 404
BackendDelete(url, table) ==
  IF url.route # BackendChatRoute \/ \A i \in 1..Len(table) : table[i].session_id # url.id
  THEN [ok |-> FALSE, table |-> table]
  ELSE [ok |-> TRUE, table |-> SelectSeq(table, LAMBDA row : row.session_id # url.id)]

\* the list left without any entry
WithoutSessionDropsAll(list, sid) == <<>>

\* prev.filter(chat => chat.session_id !== sessionId) of line 256
WithoutSession(list, sid) == SelectSeq(list, LAMBDA chat : chat.session_id # sid)

\* the trash icon of a listed conversation (lines 334-342): deleteChat up to
\* its await; one DELETE per session is followed at a time
DeleteChat(i) ==
  /\ history.pc = "ready"
  /\ i \in 1..Len(history.chatSessions)
  /\ \A d \in deleting : d.session # history.chatSessions[i].session_id
  /\ deleting' = deleting \cup {[session |-> history.chatSessions[i].session_id,
                                 mount |-> historyOpens]}
  /\ UNCHANGED << messages, selectedModel, switched, modelVars, chatVars, backendVars,
                  historyVars, now, fetching, lastProbe, countVars, fresh, setupVars,
                  lastDelete, pageVars >>

\* a DELETE settles (lines 254-259): after an OK response the entry is
\* filtered out of the list of the component that sent it, if that is still
\* mounted; a failure is only logged
DeleteChatRespond(d, reached) ==
  /\ d \in deleting
  /\ deleting' = deleting \ {d}
  /\ LET response == BackendDelete(ChatDeleteUrl(d.session), chatHistoryTable)
         ok == reached /\ response.ok
         mounted == showHistory /\ historyOpens = d.mount
     IN /\ chatHistoryTable' = IF reached THEN response.table ELSE chatHistoryTable
        /\ history' = IF ok /\ mounted
                      THEN [history EXCEPT !.chatSessions = WithoutSession(@, d.session)]
                      ELSE history
        /\ lastDelete' = [n |-> 1,
                          session |-> d.session, ok |-> ok, mounted |-> mounted,
                          deleted |-> lastDelete.deleted
                                        \cup (IF ok THEN {d.session} ELSE {})]
  /\ UNCHANGED << messages, selectedModel, switched, modelVars, chatVars, savedOk,
                  showHistory, historyOpens, now, fetching, lastProbe, countVars,
                  fresh, setupVars, pageVars >>

\* --------------------------------------------- adding keys and models
\* the models the backend registers when a provider's key is added
ProviderModels(provider) ==
  IF provider = "openai" THEN <<GptModel>> ELSE <<GeminiModel>>

\* POST /llm/api-keys on the backend: the key is stored and the provider's
\* models that are not yet in the registry are created
BackendAddApiKey(provider, keys, table) ==
  [keys |-> keys \cup {provider},
   models |-> table \o SelectSeq(ProviderModels(provider),
                                 LAMBDA m : m.id \notin Ids(table))]

\* POST /models/upload on the backend: a registry entry of type custom
BackendUploadModel(table) == Append(table, CustomModel)

AddedText(provider) ==
  <<"API key for ", provider, " added successfully! Models are now available.">>
AddFailedPrefix == <<"Failed to add API key: ">>
AddFailedFallback == <<"Unknown error">>
AddFailedText == <<"Failed to add API key">>

\* the responses POST /api/llm/api-keys can get
AddKeyOutcomes ==
  { [thrown |-> TRUE,  ok |-> FALSE, json |-> FALSE, detail |-> UNDEF],
    [thrown |-> FALSE, ok |-> TRUE,  json |-> TRUE,  detail |-> UNDEF],
    [thrown |-> FALSE, ok |-> FALSE, json |-> TRUE,  detail |-> <<"d">>],
    [thrown |-> FALSE, ok |-> FALSE, json |-> TRUE,  detail |-> UNDEF],
    [thrown |-> FALSE, ok |-> FALSE, json |-> FALSE, detail |-> UNDEF] }

\* a fetchModels called again settles (lines 88-103): an OK response replaces
\* the list and the effects that depend on it run, a failure is only logged
RefetchModels(reached, list) ==
  IF reached
  THEN /\ models' = list
       /\ apiKeys' = apiKeys
       /\ HealthEffect(list, apiKeys, modelHealthStatus, FALSE)
       /\ AutoSelectCommit(list, apiKeys, modelHealthStatus, FALSE)
  ELSE UNCHANGED << messages, selectedModel, switched, modelVars >>

\* fetchApiKeys called again without its setApiKeys
RefetchApiKeysKeepsMap(reached, keys) ==
  UNCHANGED << messages, selectedModel, switched, modelVars >>

\* a fetchApiKeys called again settles (lines 117-133)
RefetchApiKeys(reached, keys) ==
  IF reached
  THEN /\ apiKeys' = keys
       /\ models' = models
       /\ HealthEffect(models, keys, modelHealthStatus, TRUE)
       /\ AutoSelectCommit(models, keys, modelHealthStatus, TRUE)
  ELSE UNCHANGED << messages, selectedModel, switched, modelVars >>

\* the label of a provider's button (lines 468-488)
KeyButton(keys, provider) == IF provider \in keys THEN "Update Key" ELSE "Add Key"

\* Add Key or Update Key with a non-empty key entered (lines 468-488), then
\* handleAddApiKey up to its first await (lines 296-307); one call is
\* followed at a time
HandleAddApiKey(provider) ==
  /\ keyAdd = Idle
  /\ Len(alerts) < MaxAdds
  /\ keyAdd' = [pc |-> "add", provider |-> provider, log |-> <<"POST api-keys">>]
  /\ UNCHANGED << messages, selectedModel, switched, modelVars, chatVars, backendVars,
                  historyVars, now, fetching, lastProbe, countVars, fresh,
                  showModelUpload, upload, alerts, keyTable, modelTable,
                  deleteVars, pageVars >>

\* the alert of a failed add (lines 313-320)
AddFailedAlert(o) ==
  IF o.thrown \/ ~o.json THEN AddFailedText
  ELSE AddFailedPrefix \o OrElse(o.detail, AddFailedFallback)

\* the add request settles (lines 309-320): after an OK response the handler
\* awaits fetchApiKeys, otherwise it reports the failure
AddApiKeyRespond(o) ==
  /\ keyAdd # Idle
  /\ keyAdd.pc = "add"
  /\ IF ~o.thrown /\ o.ok
     THEN LET stored == BackendAddApiKey(keyAdd.provider, keyTable, modelTable)
          IN /\ keyTable' = stored.keys
             /\ modelTable' = stored.models
             /\ keyAdd' = [keyAdd EXCEPT !.pc = "keys", !.log = Append(@, "GET api-keys")]
             /\ alerts' = alerts
     ELSE /\ keyAdd' = Idle
          /\ alerts' = Append(alerts, AddFailedAlert(o))
          /\ UNCHANGED << keyTable, modelTable >>
  /\ UNCHANGED << messages, selectedModel, switched, modelVars, chatVars, backendVars,
                  historyVars, now, fetching, lastProbe, countVars, fresh,
                  showModelUpload, upload, deleteVars, pageVars >>

\* the fetchApiKeys awaited in line 310 settles, and line 311 calls fetchModels
AddApiKeyKeysRespond(reached) ==
  /\ keyAdd # Idle
  /\ keyAdd.pc = "keys"
  /\ RefetchApiKeys(reached, keyTable)
  /\ keyAdd' = [pc |-> "models", provider |-> keyAdd.provider,
                log |-> Append(keyAdd.log, "GET models"), keysFetched |-> reached]
  /\ UNCHANGED << chatVars, backendVars, historyVars, now, fetching, lastProbe,
                  countVars, fresh, showModelUpload, upload, alerts, keyTable,
                  modelTable, deleteVars, pageVars >>

\* the fetchModels awaited in line 311 settles, and line 312 announces success
AddApiKeyModelsRespond(reached) ==
  /\ keyAdd # Idle
  /\ keyAdd.pc = "models"
  /\ RefetchModels(reached, modelTable)
  /\ keyAdd' = Idle
  /\ alerts' = Append(alerts, AddedText(keyAdd.provider))
  /\ UNCHANGED << chatVars, backendVars, historyVars, now, fetching, lastProbe,
                  countVars, fresh, showModelUpload, upload, keyTable, modelTable,
                  deleteVars, pageVars >>

\* the + button of the Models heading (line 397) and the dialog's X (line 643)
SetShowModelUpload(show) ==
  /\ showModelUpload # show
  /\ showModelUpload' = show
  /\ UNCHANGED << messages, selectedModel, switched, modelVars, chatVars, backendVars,
                  historyVars, now, fetching, lastProbe, countVars, fresh,
                  keyAdd, upload, alerts, keyTable, modelTable, deleteVars, pageVars >>

\* a file chosen in the dialog (lines 654-660), then handleModelUpload up to
\* its first await (lines 275-285)
HandleModelUpload ==
  /\ showModelUpload
  /\ upload.pc = "idle"
  /\ upload.calls < MaxUploads
  /\ upload' = [pc |-> "upload", calls |-> upload.calls + 1]
  /\ UNCHANGED << messages, selectedModel, switched, modelVars, chatVars, backendVars,
                  historyVars, now, fetching, lastProbe, countVars, fresh,
                  showModelUpload, keyAdd, alerts, keyTable, modelTable,
                  deleteVars, pageVars >>

\* the upload request settles (lines 287-293): after an OK response the
\* handler awaits fetchModels, a failure is logged and changes nothing
ModelUploadRespond(ok) ==
  /\ upload.pc = "upload"
  /\ IF ok
     THEN /\ modelTable' = BackendUploadModel(modelTable)
          /\ upload' = [upload EXCEPT !.pc = "refetch"]
     ELSE /\ modelTable' = modelTable
          /\ upload' = [upload EXCEPT !.pc = "idle"]
  /\ UNCHANGED << messages, selectedModel, switched, modelVars, chatVars, backendVars,
                  historyVars, now, fetching, lastProbe, countVars, fresh,
                  showModelUpload, keyAdd, alerts, keyTable, deleteVars, pageVars >>

\* the fetchModels awaited in line 288 settles, and line 289 closes the dialog
ModelUploadRefetchRespond(reached) ==
  /\ upload.pc = "refetch"
  /\ RefetchModels(reached, modelTable)
  /\ showModelUpload' = FALSE
  /\ upload' = [upload EXCEPT !.pc = "idle"]
  /\ UNCHANGED << chatVars, backendVars, historyVars, now, fetching, lastProbe,
                  countVars, fresh, keyAdd, alerts, keyTable, modelTable,
                  deleteVars, pageVars >>

\* ------------------------------------------------------------ ModelsPage
\* the checkbox of lines 136-142: its effect (lines 33-35) calls fetchModels again
ToggleFreeApiFilter ==
  /\ modelsPage.fetches <= MaxFilterToggles
  /\ modelsPage' = [modelsPage EXCEPT !.showFreeApiModelsOnly = ~@, !.fetches = @ + 1]
  /\ UNCHANGED << messages, selectedModel, switched, modelVars, chatVars, backendVars,
                  historyVars, now, fetching, lastProbe, countVars, fresh, setupVars,
                  deleteVars, collab, collabTable, editor, assistant >>

\* one fetchModels of ModelsPage settles (part_002 lines 44-69): an OK
\* response is parsed and mapped into the local data, which is never handed
\* to setModels; the finally block ends the loading view
ModelsPageFetchRespond(ok, list) ==
  /\ modelsPage.answered < modelsPage.fetches
  /\ modelsPage' = [modelsPage EXCEPT !.loading = FALSE,
                                      !.answered = @ + 1,
                                      !.received = IF ok THEN <<list>> ELSE @]
  /\ UNCHANGED << messages, selectedModel, switched, modelVars, chatVars, backendVars,
                  historyVars, now, fetching, lastProbe, countVars, fresh, setupVars,
                  deleteVars, collab, collabTable, editor, assistant >>

\* what the page renders below its header (part_002 lines 148-166)
ModelsPageView ==
  IF modelsPage.loading THEN "loading"
  ELSE IF Len(modelsPage.models) = 0 THEN "No models yet"
  ELSE "grid"

\* ------------------------------------------------------- CollaboratePage
SessionNames == { <<" ">>, <<"s">> }
SessionDescs == { <<"d">> }

\* the requests of the page reach the backend through the rewrite
CollabSessionsUrl == <<"api", "collaboration", "sessions">>
CollabCreateUrl == <<"api", "collaboration", "create">>
BackendCollabSessionsRoute == <<"collaboration", "sessions">>
BackendCollabCreateRoute == <<"collaboration", "create">>

\* GET /collaboration/sessions on the backend: the sessions, in creation order
BackendListSessions(path, table) ==
  IF path # BackendCollabSessionsRoute THEN [ok |-> FALSE, rows |-> <<>>]
  ELSE [ok |-> TRUE, rows |-> table]

\* POST /collaboration/create on the backend: a new session with the body's fields
BackendCreateSession(path, body, table) ==
  IF path # BackendCollabCreateRoute THEN table
  ELSE Append(table, [id |-> Len(table) + 1, name |-> body.name,
                      description |-> body.description])

\* the fetchSessions of the mount effect settles (part_001 lines 34-46)
CollabFetchRespond(reached) ==
  /\ collab.fetching
  /\ LET response == BackendListSessions(Rewrite(CollabSessionsUrl), collabTable)
     IN collab' = [collab EXCEPT
                     !.fetching = FALSE,
                     !.loading = FALSE,
                     !.sessions = IF reached /\ response.ok THEN response.rows ELSE @]
  /\ UNCHANGED << messages, selectedModel, switched, modelVars, chatVars, backendVars,
                  historyVars, now, fetching, lastProbe, countVars, fresh, setupVars,
                  deleteVars, modelsPage, collabTable, editor, assistant >>

\* the New Session and Create Session buttons (lines 113, 131) and Cancel (line 213)
SetShowCreateModal(show) ==
  /\ collab.showCreateModal # show
  /\ collab' = [collab EXCEPT !.showCreateModal = show]
  /\ UNCHANGED << messages, selectedModel, switched, modelVars, chatVars, backendVars,
                  historyVars, now, fetching, lastProbe, countVars, fresh, setupVars,
                  deleteVars, modelsPage, collabTable, editor, assistant >>

\* the name input of the dialog (line 193)
SetNewSessionName(text) ==
  /\ collab.showCreateModal
  /\ collab' = [collab EXCEPT !.newSessionName = text]
  /\ UNCHANGED << messages, selectedModel, switched, modelVars, chatVars, backendVars,
                  historyVars, now, fetching, lastProbe, countVars, fresh, setupVars,
                  deleteVars, modelsPage, collabTable, editor, assistant >>

\* the description textarea of the dialog (line 203)
SetNewSessionDesc(text) ==
  /\ collab.showCreateModal
  /\ collab' = [collab EXCEPT !.newSessionDesc = text]
  /\ UNCHANGED << messages, selectedModel, switched, modelVars, chatVars, backendVars,
                  historyVars, now, fetching, lastProbe, countVars, fresh, setupVars,
                  deleteVars, modelsPage, collabTable, editor, assistant >>

\* createSession up to its first await (part_001 lines 48-61): the Create
\* button is disabled, and the handler returns, while the name is blank; one
\* create is followed at a time
CreateSession ==
  /\ collab.showCreateModal
  /\ trim(collab.newSessionName) # <<>>
  /\ collab.create = Idle
  /\ collab.created < MaxCreates
  /\ collab' = [collab EXCEPT
                  !.create = [pc |-> "create",
                              body |-> [name |-> collab.newSessionName,
                                        description |-> collab.newSessionDesc]],
                  !.created = @ + 1]
  /\ UNCHANGED << messages, selectedModel, switched, modelVars, chatVars, backendVars,
                  historyVars, now, fetching, lastProbe, countVars, fresh, setupVars,
                  deleteVars, modelsPage, collabTable, editor, assistant >>

\* the create request settles (lines 63-71): after an OK response the handler
\* awaits fetchSessions; a failure is logged and changes nothing
CreateSessionRespond(ok) ==
  /\ collab.create # Idle
  /\ collab.create.pc = "create"
  /\ IF ok
     THEN LET table == BackendCreateSession(Rewrite(CollabCreateUrl), collab.create.body,
                                            collabTable)
          IN /\ collabTable' = table
             /\ collab' = [collab EXCEPT !.create = [pc |-> "refetch",
                                                     session |-> table[Len(table)]]]
     ELSE /\ collabTable' = collabTable
          /\ collab' = [collab EXCEPT !.create = Idle,
                                      !.done = [n |-> collab.created, ok |-> FALSE]]
  /\ UNCHANGED << messages, selectedModel, switched, modelVars, chatVars, backendVars,
                  historyVars, now, fetching, lastProbe, countVars, fresh, setupVars,
                  deleteVars, modelsPage, editor, assistant >>

\* the refetch settling without lines 66-67, the fields kept as entered
CreateSessionRefetchKeepsFields(reached) ==
  /\ collab.create # Idle
  /\ collab.create.pc = "refetch"
  /\ LET response == BackendListSessions(Rewrite(CollabSessionsUrl), collabTable)
     IN collab' = [collab EXCEPT
                     !.sessions = IF reached /\ response.ok THEN response.rows ELSE @,
                     !.loading = FALSE,
                     !.showCreateModal = FALSE,
                     !.create = Idle,
                     !.done = [n |-> collab.created, ok |-> TRUE,
                               refetched |-> reached /\ response.ok,
                               session |-> collab.create.session]]
  /\ UNCHANGED << messages, selectedModel, switched, modelVars, chatVars, backendVars,
                  historyVars, now, fetching, lastProbe, countVars, fresh, setupVars,
                  deleteVars, modelsPage, collabTable, editor, assistant >>

\* the fetchSessions awaited by createSession settles (lines 34-46), then
\* lines 65-67 close the dialog and clear its fields
CreateSessionRefetchRespond(reached) ==
  /\ collab.create # Idle
  /\ collab.create.pc = "refetch"
  /\ LET response == BackendListSessions(Rewrite(CollabSessionsUrl), collabTable)
     IN collab' = [collab EXCEPT
                     !.sessions = IF reached /\ response.ok THEN response.rows ELSE @,
                     !.loading = FALSE,
                     !.showCreateModal = FALSE,
                     !.newSessionName = <<>>,
                     !.newSessionDesc = <<>>,
                     !.create = Idle,
                     !.done = [n |-> collab.created, ok |-> TRUE,
                               refetched |-> reached /\ response.ok,
                               session |-> collab.create.session]]
  /\ UNCHANGED << messages, selectedModel, switched, modelVars, chatVars, backendVars,
                  historyVars, now, fetching, lastProbe, countVars, fresh, setupVars,
                  deleteVars, modelsPage, collabTable, editor, assistant >>

\* ------------------------------------------------------ code-editor page
\* `${value}` of a template literal
TemplateText(v) == IF v = UNDEF THEN <<"undefined">> ELSE v

RunCodeUrl == <<"api", "execute">>
SuggestUrl == <<"api", "code", "suggest">>
GenerateTestsUrl == <<"api", "code", "generate-tests">>

\* the backend route that executes code
BackendExecuteRoute == <<"code", "execute">>

ExecutedText == <<"Code executed successfully">>
RunErrorFallback == <<"Unknown error">>
RunFailedPrefix == <<"Failed to execute code: ">>
UnknownErrorText == <<"Unknown error occurred">>
NetworkErrorText == <<"Network error">>
TestsErrorPrefix == <<"# Error generating tests: ">>
TestsFailedPrefix == <<"# Failed to generate tests: ">>
SuggestErrorPrefix == <<"Error generating AI suggestion: ">>
SuggestFailedPrefix == <<"Failed to generate AI suggestion: ">>

\* the responses POST /api/execute can get; thrown carries what fetch or
\* response.json() threw
RunOutcomes ==
  { [thrown |-> <<"TypeError: Failed to fetch">>, success |-> FALSE, output |-> UNDEF, error |-> UNDEF],
    [thrown |-> <<"SyntaxError: Unexpected token">>, success |-> FALSE, output |-> UNDEF, error |-> UNDEF],
    [thrown |-> <<>>, success |-> TRUE,  output |-> <<"o">>, error |-> UNDEF],
    [thrown |-> <<>>, success |-> TRUE,  output |-> <<>>,    error |-> UNDEF],
    [thrown |-> <<>>, success |-> FALSE, output |-> UNDEF,   error |-> <<"e">>],
    [thrown |-> <<>>, success |-> FALSE, output |-> UNDEF,   error |-> UNDEF] }

\* the responses the suggest and generate-tests requests can get; text is
\* the body's suggestion or test_code, thrown the message of what was
\* thrown, UNDEF when it is no Error
CodeOutcomes ==
  { [thrown |-> <<"Failed to fetch">>, ok |-> FALSE, text |-> UNDEF, error |-> UNDEF, detail |-> UNDEF],
    [thrown |-> UNDEF, ok |-> FALSE, text |-> UNDEF, error |-> UNDEF, detail |-> UNDEF],
    [thrown |-> <<>>, ok |-> TRUE,  text |-> <<"t">>, error |-> UNDEF, detail |-> UNDEF],
    [thrown |-> <<>>, ok |-> TRUE,  text |-> UNDEF, error |-> UNDEF, detail |-> UNDEF],
    [thrown |-> <<>>, ok |-> TRUE,  text |-> UNDEF, error |-> <<"e">>, detail |-> UNDEF],
    [thrown |-> <<>>, ok |-> FALSE, text |-> UNDEF, error |-> UNDEF, detail |-> <<"d">>],
    [thrown |-> <<>>, ok |-> FALSE, text |-> <<"t">>, error |-> UNDEF, detail |-> UNDEF] }

\* handleRunCode up to its await (lines 59-72); Run Code is disabled while loading
HandleRunCode ==
  /\ ~editor.loading
  /\ editor' = [editor EXCEPT !.loading = TRUE, !.output = <<>>,
                              !.requested = @ \cup {RunCodeUrl}]
  /\ UNCHANGED << messages, selectedModel, switched, modelVars, chatVars, backendVars,
                  historyVars, now, fetching, lastProbe, countVars, fresh, setupVars,
                  deleteVars, modelsPage, collab, collabTable, assistant >>

\* what handleRunCode puts in output (lines 74-93)
RunOutput(o) ==
  IF o.thrown # <<>> THEN RunFailedPrefix \o o.thrown
  ELSE IF o.success THEN OrElse(o.output, ExecutedText)
  ELSE <<"Error: ">> \o OrElse(o.error, RunErrorFallback)

\* the execute request settles (lines 74-96)
RunCodeRespond(o) ==
  /\ editor.loading
  /\ editor' = [editor EXCEPT !.loading = FALSE, !.output = RunOutput(o)]
  /\ UNCHANGED << messages, selectedModel, switched, modelVars, chatVars, backendVars,
                  historyVars, now, fetching, lastProbe, countVars, fresh, setupVars,
                  deleteVars, modelsPage, collab, collabTable, assistant >>

\* the text of a failed suggest or generate-tests call (lines 117-123, 146-152)
CodeErrorText(o, errorPrefix, failedPrefix) ==
  IF o.thrown # <<>>
  THEN failedPrefix \o (IF o.thrown = UNDEF THEN NetworkErrorText ELSE o.thrown)
  ELSE errorPrefix \o OrElse(o.error, OrElse(o.detail, UnknownErrorText))

\* response.ok && data.suggestion, response.ok && data.test_code
CodeReturned(o) == o.thrown = <<>> /\ o.ok /\ Truthy(o.text)

\* handleGenerateAISuggestion up to its await (lines 99-111)
HandleGenerateAISuggestion ==
  /\ ~editor.loadingAISuggestion
  /\ editor' = [editor EXCEPT !.loadingAISuggestion = TRUE, !.aiSuggestion = <<>>,
                              !.activeTab = "ai-suggestions",
                              !.requested = @ \cup {SuggestUrl}]
  /\ UNCHANGED << messages, selectedModel, switched, modelVars, chatVars, backendVars,
                  historyVars, now, fetching, lastProbe, countVars, fresh, setupVars,
                  deleteVars, modelsPage, collab, collabTable, assistant >>

\* the suggest request settles (lines 113-126)
AISuggestionRespond(o) ==
  /\ editor.loadingAISuggestion
  /\ editor' = [editor EXCEPT
                  !.loadingAISuggestion = FALSE,
                  !.aiSuggestion = IF CodeReturned(o) THEN o.text
                                   ELSE CodeErrorText(o, SuggestErrorPrefix, SuggestFailedPrefix)]
  /\ UNCHANGED << messages, selectedModel, switched, modelVars, chatVars, backendVars,
                  historyVars, now, fetching, lastProbe, countVars, fresh, setupVars,
                  deleteVars, modelsPage, collab, collabTable, assistant >>

\* handleGenerateTests up to its await (lines 129-139)
HandleGenerateTests ==
  /\ ~editor.loadingTests
  /\ editor' = [editor EXCEPT !.loadingTests = TRUE,
                              !.requested = @ \cup {GenerateTestsUrl}]
  /\ UNCHANGED << messages, selectedModel, switched, modelVars, chatVars, backendVars,
                  historyVars, now, fetching, lastProbe, countVars, fresh, setupVars,
                  deleteVars, modelsPage, collab, collabTable, assistant >>

\* the generate-tests request settling with the finally block left out
GenerateTestsRespondKeepsLoading(o) ==
  /\ editor.loadingTests
  /\ editor' = [editor EXCEPT
                  !.testCode = IF CodeReturned(o) THEN o.text
                               ELSE CodeErrorText(o, TestsErrorPrefix, TestsFailedPrefix),
                  !.activeTab = IF CodeReturned(o) THEN "tests" ELSE @]
  /\ UNCHANGED << messages, selectedModel, switched, modelVars, chatVars, backendVars,
                  historyVars, now, fetching, lastProbe, countVars, fresh, setupVars,
                  deleteVars, modelsPage, collab, collabTable, assistant >>

\* the generate-tests request settles (lines 141-155)
GenerateTestsRespond(o) ==
  /\ editor.loadingTests
  /\ editor' = [editor EXCEPT
                  !.loadingTests = FALSE,
                  !.testCode = IF CodeReturned(o) THEN o.text
                               ELSE CodeErrorText(o, TestsErrorPrefix, TestsFailedPrefix),
                  !.activeTab = IF CodeReturned(o) THEN "tests" ELSE @]
  /\ UNCHANGED << messages, selectedModel, switched, modelVars, chatVars, backendVars,
                  historyVars, now, fetching, lastProbe, countVars, fresh, setupVars,
                  deleteVars, modelsPage, collab, collabTable, assistant >>

\* the tab buttons (lines 269-308)
EditorTabs == {"output", "tests", "performance", "ai-suggestions"}

SetActiveTab(tab) ==
  /\ editor.activeTab # tab
  /\ editor' = [editor EXCEPT !.activeTab = tab]
  /\ UNCHANGED << messages, selectedModel, switched, modelVars, chatVars, backendVars,
                  historyVars, now, fetching, lastProbe, countVars, fresh, setupVars,
                  deleteVars, modelsPage, collab, collabTable, assistant >>

\* ------------------------------------------- CodeEditor's AI assistant
\* fetchAvailableModels settles (TestResultsDashboard.tsx lines 339-359):
\* the first model with an active key becomes the selected one
AssistantFetchModelsRespond(list) ==
  /\ assistant.fetching
  /\ assistant' = [assistant EXCEPT
                     !.fetching = FALSE,
                     !.selectedAiModel = IF Len(list) > 0 /\ @ = <<>>
                                         THEN <<list[1].id>> ELSE @]
  /\ UNCHANGED << messages, selectedModel, switched, modelVars, chatVars, backendVars,
                  historyVars, now, fetching, lastProbe, countVars, fresh, setupVars,
                  deleteVars, modelsPage, collab, collabTable, editor >>

\* the assistant's input (lines 656-659)
SetAiInput(text) ==
  /\ assistant' = [assistant EXCEPT !.aiInput = text]
  /\ UNCHANGED << messages, selectedModel, switched, modelVars, chatVars, backendVars,
                  historyVars, now, fetching, lastProbe, countVars, fresh, setupVars,
                  deleteVars, modelsPage, collab, collabTable, editor >>

\* handleAiAssist up to its await (lines 454-474), from the Send button,
\* which is disabled while a reply is awaited
HandleAiAssist ==
  /\ trim(assistant.aiInput) # <<>>
  /\ assistant.selectedAiModel # <<>>
  /\ ~assistant.isAiLoading
  /\ assistant.sent < MaxAiSends
  /\ assistant' = [assistant EXCEPT
                     !.aiMessages = Append(@, [role |-> "user", content |-> assistant.aiInput]),
                     !.aiInput = <<>>,
                     !.isAiLoading = TRUE,
                     !.sent = @ + 1]
  /\ UNCHANGED << messages, selectedModel, switched, modelVars, chatVars, backendVars,
                  historyVars, now, fetching, lastProbe, countVars, fresh, setupVars,
                  deleteVars, modelsPage, collab, collabTable, editor >>

\* the messages handleAiAssist appends when its request settles (lines
\* 476-487): none for a response that is not OK
AiReply(o) ==
  IF o.thrown \/ (o.ok /\ ~o.json)
  THEN << [role |-> "assistant", content |-> <<"Failed to get AI response">>] >>
  ELSE IF ~o.ok THEN <<>>
  ELSE IF o.success THEN << [role |-> "assistant", content |-> o.response] >>
  ELSE << [role |-> "assistant", content |-> <<"Error: ">> \o TemplateText(o.error)] >>

\* the assistant's generate request settles (lines 476-489)
AiAssistRespond(o) ==
  /\ assistant.isAiLoading
  /\ assistant' = [assistant EXCEPT !.aiMessages = @ \o AiReply(o),
                                    !.isAiLoading = FALSE]
  /\ UNCHANGED << messages, selectedModel, switched, modelVars, chatVars, backendVars,
                  historyVars, now, fetching, lastProbe, countVars, fresh, setupVars,
                  deleteVars, modelsPage, collab, collabTable, editor >>

\* ------------------------------------------------------------------- Next
\* what the backend answers while a conversation is followed: two API models
\* with their keys, each probe reporting the model available or not
ChatModelLists == { <<GptModel, GeminiModel>> }
ChatKeySets == { {"openai", "gemini"} }
ChatHealthOutcomes == {o \in HealthOutcomes : o.ok /\ o.json /\ o.available # "undefined"}

\* a reply, an error the backend reports, a request that fails
ChatGenerateOutcomes ==
  {o \in GenerateOutcomes :
     o.thrown \/ (o.json /\ o.ok /\ (o.response = <<"r">> \/ o.error = <<"e">>))}

\* the conversation interleaved with model switches, New Chat and health rounds
Next ==
  \/ \E list \in ChatModelLists : FetchModelsOk(list)
  \/ \E keys \in ChatKeySets : FetchApiKeysOk(keys)
  \/ \E r \in 1..Len(rounds) : \E id \in ModelIds : \E o \in ChatHealthOutcomes :
       HealthRespond(r, id, o)
  \/ \E text \in InputTexts : TypeInput(text)
  \/ HandleSendMessage
  \/ \E o \in ChatGenerateOutcomes : GenerateRespond(o)
  \/ \E delivered \in BOOLEAN : SaveSettle(delivered)
  \/ \E i \in 1..Len(models) : HandleSelectModel(i)
  \/ StartNewChat

Spec == Init /\ [][Next]_vars

\* the conversation with every answer the generate request can get
NextReply ==
  \/ \E list \in ChatModelLists : FetchModelsOk(list)
  \/ \E keys \in ChatKeySets : FetchApiKeysOk(keys)
  \/ \E text \in InputTexts : TypeInput(text)
  \/ HandleSendMessage
  \/ \E o \in GenerateOutcomes : GenerateRespond(o)
  \/ \E delivered \in BOOLEAN : SaveSettle(delivered)
  \/ \E i \in 1..Len(models) : HandleSelectModel(i)
  \/ StartNewChat

SpecReply == Init /\ [][NextReply]_vars

\* the conversation with the history sidebar and the backend's table
NextHistory ==
  \/ \E list \in ChatModelLists : FetchModelsOk(list)
  \/ \E keys \in ChatKeySets : FetchApiKeysOk(keys)
  \/ \E text \in InputTexts : TypeInput(text)
  \/ HandleSendMessage
  \/ \E o \in ChatGenerateOutcomes : GenerateRespond(o)
  \/ \E delivered \in BOOLEAN : SaveSettle(delivered)
  \/ StartNewChat
  \/ ToggleHistory
  \/ \E reached \in BOOLEAN : LoadChatHistoryRespond(reached)
  \/ RefreshHistory
  \/ \E i \in 1..Len(chatHistoryTable) : LoadChat(i)

SpecHistory == Init /\ [][NextHistory]_vars

\* the playground's model list, API keys and health rounds, with every answer
\* the backend can give and no conversation
NextModels ==
  \/ \E list \in ModelLists : FetchModelsOk(list)
  \/ FetchModelsFail
  \/ \E keys \in KeySets : FetchApiKeysOk(keys)
  \/ FetchApiKeysFail
  \/ \E r \in 1..Len(rounds) : \E id \in ModelIds : \E o \in HealthOutcomes :
       HealthRespond(r, id, o)
  \/ \E i \in 1..Len(models) : HandleSelectModel(i)

SpecModels == Init /\ [][NextModels]_vars

\* the Models page and the Collaborate page, each open in its own tab
NextPages ==
  \/ ToggleFreeApiFilter
  \/ \E ok \in BOOLEAN : \E list \in ModelLists : ModelsPageFetchRespond(ok, list)
  \/ \E reached \in BOOLEAN : CollabFetchRespond(reached)
  \/ \E show \in BOOLEAN : SetShowCreateModal(show)
  \/ \E text \in SessionNames : SetNewSessionName(text)
  \/ \E text \in SessionDescs : SetNewSessionDesc(text)
  \/ CreateSession
  \/ \E ok \in BOOLEAN : CreateSessionRespond(ok)
  \/ \E reached \in BOOLEAN : CreateSessionRefetchRespond(reached)

SpecPages == Init /\ [][NextPages]_vars


\* the playground's keys, registry and upload dialog, the mount requests
\* answered from the backend's tables and the health probes left pending
NextSetup ==
  \/ FetchModelsOk(modelTable)
  \/ FetchModelsFail
  \/ FetchApiKeysOk(keyTable)
  \/ FetchApiKeysFail
  \/ \E provider \in Providers : HandleAddApiKey(provider)
  \/ \E o \in AddKeyOutcomes : AddApiKeyRespond(o)
  \/ \E reached \in BOOLEAN : AddApiKeyKeysRespond(reached)
  \/ \E reached \in BOOLEAN : AddApiKeyModelsRespond(reached)
  \/ \E show \in BOOLEAN : SetShowModelUpload(show)
  \/ HandleModelUpload
  \/ \E ok \in BOOLEAN : ModelUploadRespond(ok)
  \/ \E reached \in BOOLEAN : ModelUploadRefetchRespond(reached)

SpecSetup == Init /\ [][NextSetup]_vars

\* the conversation with the history sidebar, its trash icons and the
\* backend's table
NextDelete ==
  \/ \E list \in ChatModelLists : FetchModelsOk(list)
  \/ \E keys \in ChatKeySets : FetchApiKeysOk(keys)
  \/ \E text \in InputTexts : TypeInput(text)
  \/ HandleSendMessage
  \/ \E o \in ChatGenerateOutcomes : GenerateRespond(o)
  \/ \E delivered \in BOOLEAN : SaveSettle(delivered)
  \/ ToggleHistory
  \/ \E reached \in BOOLEAN : LoadChatHistoryRespond(reached)
  \/ RefreshHistory
  \/ \E i \in 1..Len(chatHistoryTable) : LoadChat(i)
  \/ \E i \in 1..Len(chatHistoryTable) : DeleteChat(i)
  \/ \E d \in deleting : \E reached \in BOOLEAN : DeleteChatRespond(d, reached)

SpecDelete == Init /\ [][NextDelete]_vars

\* the code-editor page and the CodeEditor component's assistant, each
\* open in its own tab
NextEditor ==
  \/ HandleRunCode
  \/ \E o \in RunOutcomes : RunCodeRespond(o)
  \/ HandleGenerateAISuggestion
  \/ \E o \in CodeOutcomes : AISuggestionRespond(o)
  \/ HandleGenerateTests
  \/ \E o \in CodeOutcomes : GenerateTestsRespond(o)
  \/ \E tab \in EditorTabs : SetActiveTab(tab)
  \/ \E list \in ChatModelLists \cup {<<>>} : AssistantFetchModelsRespond(list)
  \/ \E text \in InputTexts : SetAiInput(text)
  \/ HandleAiAssist
  \/ \E o \in GenerateOutcomes : AiAssistRespond(o)

SpecEditor == Init /\ [][NextEditor]_vars

\* the playground of a user whose keys are stored: the mount requests answered
\* from the backend's tables, Add Key and Update Key, and the health rounds
\* with every answer a probe can get
NextRounds ==
  \/ FetchModelsOk(modelTable)
  \/ FetchModelsFail
  \/ FetchApiKeysOk(keyTable)
  \/ FetchApiKeysFail
  \/ \E provider \in Providers : HandleAddApiKey(provider)
  \/ \E o \in AddKeyOutcomes : AddApiKeyRespond(o)
  \/ \E reached \in BOOLEAN : AddApiKeyKeysRespond(reached)
  \/ \E reached \in BOOLEAN : AddApiKeyModelsRespond(reached)
  \/ \E r \in 1..Len(rounds) : \E id \in ModelIds : \E o \in HealthOutcomes :
       HealthRespond(r, id, o)
  \/ \E i \in 1..Len(models) : HandleSelectModel(i)

SpecRounds == InitStored /\ [][NextRounds]_vars

\* ----------------------------------------------------------------- claims
IsPrefix(a, b) == Len(a) <= Len(b) /\ SubSeq(b, 1, Len(a)) = a

Last(q) == q[Len(q)]

\* C1: every chat the playground has posted under a session id is among the
\* rows the ChatHistory read gets back: the write and the read reach the
\* same backend resource.
C1_SavedChatIsRetrievable ==
  \A s \in savedOk :
    \E i \in 1..Len(BackendGet(ChatHistoryUrl, chatHistoryTable).rows) :
      BackendGet(ChatHistoryUrl, chatHistoryTable).rows[i].session_id = s

\* C2: of two successive saves under one session id, the earlier message list
\* is a prefix of the later one.
C2_SavesOnlyAppend ==
  \A i, j \in 1..Len(saves) :
    ( /\ i < j
      /\ saves[i].session_id = saves[j].session_id
      /\ \A k \in (i + 1)..(j - 1) : saves[k].session_id # saves[i].session_id )
    => IsPrefix(saves[i].messages, saves[j].messages)

\* C4: no message that was on screen at the latest model switch (manual or
\* automatic) is in the message list afterwards.
C4_SwitchClearsConversation ==
  Timestamps(messages) \cap switched = {}

\* C5: after New Chat, no message of the conversation it cleared is shown
\* under, or saved under, the new session id.
C5_NewChatIsFresh ==
  /\ sessionId = fresh.sessionId => Timestamps(messages) \cap fresh.cleared = {}
  /\ \A i \in 1..Len(saves) :
       saves[i].session_id = fresh.sessionId
         => \A k \in 1..Len(saves[i].messages) :
              ParseDate(saves[i].messages[k].timestamp) \notin fresh.cleared

\* C6: every non-custom model in the displayed list has a health result that
\* reported it available.
C6_OnlyWorkingModelsDisplayed ==
  \A i \in 1..Len(filteredModels) :
    filteredModels[i].type # "custom"
      => modelHealthStatus[filteredModels[i].id] = "true"

\* C9: every answered send has appended, after the user message, one assistant
\* message whose content is not blank, and loading is false once the call is over.
C9_SentMessageAnswered ==
  /\ gen.pc = "idle" => ~loading
  /\ exchange.n > 0
       => /\ Len(exchange.finalMessages) = Len(exchange.updatedMessages) + 1
          /\ Last(exchange.updatedMessages).role = "user"
          /\ Last(exchange.finalMessages).role = "assistant"
          /\ Last(exchange.finalMessages).content # UNDEF
          /\ trim(Last(exchange.finalMessages).content) # <<>>

\* the send whose answer is the latest exchange, as it was requested
ExchangeRequest == generateRequests[exchange.n]

\* the save request of the latest exchange
ExchangeSave == saves[exchange.n]

\* C3: every answered send has issued exactly one save request, and that
\* request carries the session id and the model selected when the message was
\* sent and the whole message list: the messages before, the new user message
\* and the assistant reply or error message.
C3_ExchangeSavedOnce ==
  /\ Len(saves) = sends - (IF gen.pc = "generate" THEN 1 ELSE 0)
  /\ exchange.n > 0
       => /\ ExchangeSave.session_id = exchange.sessionId
          /\ ExchangeSave.model_id = ExchangeRequest.model_id
          /\ Len(ExchangeSave.messages) = Len(exchange.updatedMessages) + 1
          /\ \A k \in 1..Len(exchange.updatedMessages) :
               /\ ExchangeSave.messages[k].role = exchange.updatedMessages[k].role
               /\ ExchangeSave.messages[k].content = exchange.updatedMessages[k].content
               /\ ExchangeSave.messages[k].timestamp.iso = exchange.updatedMessages[k].timestamp
          /\ ExchangeSave.messages[Len(exchange.updatedMessages)].role = "user"
          /\ ExchangeSave.messages[Len(exchange.updatedMessages)].content = ExchangeRequest.prompt
          /\ Last(ExchangeSave.messages).role = "assistant"
          /\ Last(ExchangeSave.messages).content = Last(exchange.finalMessages).content

\* a second exchange, within a conversation, whose generate request failed
C3_Witness ==
  /\ exchange.n = 2
  /\ exchange.outcome.thrown
  /\ Len(exchange.updatedMessages) = 3
  /\ Len(saves) = 2
  /\ gen.pc = "idle"

\* C7: a non-custom model is in the displayed list only if the API-key map has
\* an entry for its provider, and every custom model of the list is displayed.
C7_ApiKeysGateModels ==
  /\ \A i \in 1..Len(filteredModels) :
       filteredModels[i].type # "custom" => filteredModels[i].provider \in apiKeys
  /\ \A i \in 1..Len(models) :
       models[i].type = "custom" => models[i].id \in Ids(filteredModels)

\* one provider has a key: its model and the custom model are shown, the
\* model of the provider without a key is hidden
C7_Witness ==
  /\ models = <<GptModel, GeminiModel, CustomModel>>
  /\ apiKeys = {"openai"}
  /\ filteredModels = <<GptModel, CustomModel>>

\* the text the backend's answer carries as its error, the fixed fallback when it carries none
ErrorText(o) == IF o.error = UNDEF \/ o.error = <<>> THEN GenerateFallback ELSE o.error

\* C8 as stated: one generate request per send; an answer that is not OK or
\* reports no success appends 'Error: ' and the backend's error text, the
\* fallback when there is none; a success appends the response text unchanged.
C8_ErrorsPassedThrough ==
  /\ Len(generateRequests) = sends
  /\ (exchange.n > 0 /\ ~exchange.outcome.thrown)
       => IF exchange.outcome.ok /\ exchange.outcome.success
          THEN Last(exchange.finalMessages).content = exchange.outcome.response
          ELSE Last(exchange.finalMessages).content
                 = ErrorPrefix \o ErrorText(exchange.outcome)

\* C8 as amended: the error text is passed through when the answer's body
\* parses; an answer whose body does not parse, like a request that fails,
\* appends the fixed connection-failure text.
C8_ErrorsPassedThroughWhenParsed ==
  /\ Len(generateRequests) = sends
  /\ exchange.n > 0
       => IF exchange.outcome.thrown \/ ~exchange.outcome.json
          THEN Last(exchange.finalMessages).content = ConnectFailure
          ELSE IF exchange.outcome.ok /\ exchange.outcome.success
          THEN Last(exchange.finalMessages).content = exchange.outcome.response
          ELSE Last(exchange.finalMessages).content
                 = ErrorPrefix \o ErrorText(exchange.outcome)

\* an answer that is not OK and carries no error text has been shown with the fallback
C8_Witness ==
  /\ exchange.n > 0
  /\ exchange.outcome.json
  /\ ~exchange.outcome.ok
  /\ exchange.outcome.error = UNDEF
  /\ Last(messages).content = ErrorPrefix \o GenerateFallback

RequestsFor(r, id) ==
  {k \in 1..Len(healthRequests) :
     healthRequests[k].round = r /\ healthRequests[k].model = id}

\* C10: a round sends one trial request for each non-custom model of its list
\* whose provider has a key and none for any other model; a probed model's
\* result is true iff its response was OK with available === true; models not
\* probed get no result; a finished round has published its results.
C10_HealthRoundProbesOnce ==
  /\ \A r \in 1..Len(rounds) : \A id \in ModelIds :
       Cardinality(RequestsFor(r, id))
         = IF \E i \in 1..Len(rounds[r].models) :
                /\ rounds[r].models[i].id = id
                /\ rounds[r].models[i].type # "custom"
                /\ rounds[r].models[i].provider \in rounds[r].apiKeys
           THEN 1 ELSE 0
  /\ \A r \in 1..Len(rounds) : \A id \in ModelIds :
       (RequestsFor(r, id) = {} \/ id \in rounds[r].pending)
         => rounds[r].healthResults[id] = "undefined"
  /\ \A k \in 1..Len(healthRequests) : healthRequests[k].round \in 1..Len(rounds)
  /\ lastProbe.round > 0
       => rounds[lastProbe.round].healthResults[lastProbe.model]
            = BoolText( /\ ~lastProbe.outcome.thrown
                        /\ lastProbe.outcome.ok
                        /\ lastProbe.outcome.json
                        /\ lastProbe.outcome.available = "true" )
  /\ (rounds # <<>> /\ \A r \in 1..Len(rounds) : rounds[r].done)
       => \E r \in 1..Len(rounds) : modelHealthStatus = rounds[r].healthResults

\* a finished round over two API models and a custom one: the API models were
\* probed, one found available and one not, the last answer being a non-OK response
C10_Witness ==
  \E r \in 1..Len(rounds) :
    /\ rounds[r].done
    /\ rounds[r].models = <<GptModel, GeminiModel, CustomModel>>
    /\ rounds[r].healthResults[GptModel.id] = "true"
    /\ rounds[r].healthResults[GeminiModel.id] = "false"
    /\ lastProbe.round = r
    /\ ~lastProbe.outcome.ok /\ ~lastProbe.outcome.thrown
    /\ modelHealthStatus = rounds[r].healthResults

Range(q) == {q[i] : i \in 1..Len(q)}

\* C11: once fetchModels of the Models page got an OK response, the page's
\* model list holds every model the response returned, and the page shows
\* 'No models yet' only when the response returned no model.
C11_ModelsPageShowsAllModels ==
  modelsPage.received # <<>> =>
    /\ Ids(modelsPage.received[1]) \subseteq Ids(modelsPage.models)
    /\ (ModelsPageView = "No models yet" => modelsPage.received[1] = <<>>)

\* C14: when the session list fetched after a successful create settles, the
\* created session is in the list, the dialog is closed and its fields are
\* empty; a create is only sent with a non-blank name, and a failed create
\* leaves the list, the dialog and the fields as they were.
C14_CreatedSessionListed ==
  [][ /\ \A reached \in BOOLEAN :
           CreateSessionRefetchRespond(reached) =>
             /\ collab.create.session \in Range(collab'.sessions)
             /\ ~collab'.showCreateModal
             /\ collab'.newSessionName = <<>>
             /\ collab'.newSessionDesc = <<>>
      /\ CreateSession => trim(collab.newSessionName) # <<>>
      /\ CreateSessionRespond(FALSE) =>
           /\ collab'.sessions = collab.sessions
           /\ collab'.showCreateModal = collab.showCreateModal
           /\ collab'.newSessionName = collab.newSessionName
           /\ collab'.newSessionDesc = collab.newSessionDesc ]_vars

\* C14 (amended): as C14, with the created session in the list when the
\* fetch after the create got an OK response, and the list as it was when
\* that fetch failed; the dialog is closed and cleared in both cases.
C14_CreatedSessionListedWhenRefetched ==
  [][ /\ \A reached \in BOOLEAN :
           CreateSessionRefetchRespond(reached) =>
             /\ IF reached
                THEN /\ collab.create.session \in Range(collab'.sessions)
                     /\ collab'.sessions = collabTable
                ELSE collab'.sessions = collab.sessions
             /\ ~collab'.showCreateModal
             /\ collab'.newSessionName = <<>>
             /\ collab'.newSessionDesc = <<>>
      /\ CreateSession => trim(collab.newSessionName) # <<>>
      /\ CreateSessionRespond(FALSE) =>
           /\ collab'.sessions = collab.sessions
           /\ collab'.showCreateModal = collab.showCreateModal
           /\ collab'.newSessionName = collab.newSessionName
           /\ collab'.newSessionDesc = collab.newSessionDesc ]_vars

\* a create succeeded, the list was fetched again and shows the new session
C14_Witness ==
  /\ collab.done.n > 0
  /\ collab.done.ok
  /\ collab.done.refetched
  /\ collab.done.session \in Range(collab.sessions)
  /\ ~collab.showCreateModal
  /\ collab.newSessionName = <<>>

\* C12: when handleAddApiKey announces success it has sent the add, then
\* fetched the key map, then the model list; the provider's button reads
\* 'Update Key' and the provider's registered models are in the model list.
\* A failed add leaves the key map and the model list as they were.
C12_KeyAddRefreshesLists ==
  [][ /\ \A reached \in BOOLEAN :
           AddApiKeyModelsRespond(reached) =>
             /\ keyAdd.log = <<"POST api-keys", "GET api-keys", "GET models">>
             /\ Last(alerts') = AddedText(keyAdd.provider)
             /\ KeyButton(apiKeys', keyAdd.provider) = "Update Key"
             /\ Ids(ProviderModels(keyAdd.provider)) \subseteq Ids(models')
      /\ \A o \in AddKeyOutcomes :
           (AddApiKeyRespond(o) /\ (o.thrown \/ ~o.ok)) =>
             /\ apiKeys' = apiKeys
             /\ models' = models
             /\ Last(alerts') # AddedText(keyAdd.provider) ]_vars

\* C12 (amended): as C12, with the button reading 'Update Key' when the
\* fetch of the key map got an OK response and the provider's models in the
\* list when the fetch of the model list got one; a failed fetch of the
\* model list leaves the list as it was, and success is announced all the same.
C12_KeyAddRefreshesListsWhenFetched ==
  [][ /\ \A reached \in BOOLEAN :
           AddApiKeyModelsRespond(reached) =>
             /\ keyAdd.log = <<"POST api-keys", "GET api-keys", "GET models">>
             /\ Last(alerts') = AddedText(keyAdd.provider)
             /\ keyAdd.keysFetched => KeyButton(apiKeys', keyAdd.provider) = "Update Key"
             /\ IF reached
                THEN Ids(ProviderModels(keyAdd.provider)) \subseteq Ids(models')
                ELSE models' = models
      /\ \A o \in AddKeyOutcomes :
           (AddApiKeyRespond(o) /\ (o.thrown \/ ~o.ok)) =>
             /\ apiKeys' = apiKeys
             /\ models' = models
             /\ Last(alerts') # AddedText(keyAdd.provider) ]_vars

\* success was announced for a provider that shows as configured with its
\* models listed
C12_Witness ==
  /\ alerts # <<>>
  /\ keyAdd = Idle
  /\ \E provider \in Providers :
       /\ Last(alerts) = AddedText(provider)
       /\ KeyButton(apiKeys, provider) = "Update Key"
       /\ Ids(ProviderModels(provider)) \subseteq Ids(models)

\* C13: when the fetch of the model list after a successful upload settles,
\* the upload dialog is closed and the uploaded custom model is in the
\* displayed list, with or without API keys; a failed upload leaves the
\* dialog and the model list as they were.
C13_UploadedModelDisplayed ==
  [][ /\ \A reached \in BOOLEAN :
           ModelUploadRefetchRespond(reached) =>
             /\ ~showModelUpload'
             /\ CustomModel.id \in Ids(filteredModelsOf(models', apiKeys', modelHealthStatus'))
      /\ ModelUploadRespond(FALSE) =>
           /\ showModelUpload' = showModelUpload
           /\ models' = models ]_vars

\* C13 (amended): as C13, with the uploaded model in the displayed list when
\* the fetch of the model list got an OK response; when that fetch failed
\* the list is as it was and the dialog is closed all the same.
C13_UploadedModelDisplayedWhenFetched ==
  [][ /\ \A reached \in BOOLEAN :
           ModelUploadRefetchRespond(reached) =>
             /\ ~showModelUpload'
             /\ IF reached
                THEN CustomModel.id \in Ids(filteredModelsOf(models', apiKeys', modelHealthStatus'))
                ELSE models' = models
      /\ ModelUploadRespond(FALSE) =>
           /\ showModelUpload' = showModelUpload
           /\ models' = models ]_vars

\* an uploaded model is displayed, the dialog closed, with no API key configured
C13_Witness ==
  /\ upload.calls > 0
  /\ upload.pc = "idle"
  /\ ~showModelUpload
  /\ apiKeys = {}
  /\ CustomModel.id \in Ids(filteredModels)

\* C15: when a DELETE for session id s settles in a mounted ChatHistory, an
\* OK response leaves the displayed list without any entry of s and with all
\* its other entries in their order, and a failure leaves the list unchanged.
C15_DeleteRemovesOnlyThatChat ==
  [][ \A d \in deleting : \A reached \in BOOLEAN :
        (DeleteChatRespond(d, reached) /\ lastDelete'.mounted) =>
          IF lastDelete'.ok
          THEN /\ \A i \in 1..Len(history'.chatSessions) :
                    history'.chatSessions[i].session_id # d.session
               /\ history'.chatSessions =
                    SelectSeq(history.chatSessions, LAMBDA c : c.session_id # d.session)
          ELSE history'.chatSessions = history.chatSessions ]_vars

\* a delete succeeded and left the two other conversations listed
C15_Witness ==
  /\ lastDelete.n > 0
  /\ lastDelete.ok
  /\ lastDelete.mounted
  /\ history.pc = "ready"
  /\ Len(history.chatSessions) = 2
  /\ \A i \in 1..Len(history.chatSessions) :
       history.chatSessions[i].session_id # lastDelete.session

\* C16: once a DELETE of session id s has succeeded, no save request sent
\* afterwards carries session id s.
C16_DeletedStaysDeleted ==
  [][ Len(saves') > Len(saves) =>
        Last(saves').session_id \notin lastDelete.deleted ]_vars

ShownTexts ==
  {editor.output, editor.testCode, editor.aiSuggestion}
    \cup {assistant.aiMessages[i].content : i \in 1..Len(assistant.aiMessages)}
    \cup {messages[i].content : i \in 1..Len(messages)}

\* C18: no text a handler shows for a backend failure contains the value
\* undefined; a failure response without an error field shows a fixed
\* fallback text.
C18_NoUndefinedShown ==
  \A text \in ShownTexts : "undefined" \notin Range(text) /\ text # UNDEF

\* C19: when Generate Tests completes, loadingTests is false and testCode is
\* the test code the backend returned, with the Tests tab active, or a
\* comment line with the backend's error text, its detail text, or the text
\* of a network error.
C19_TestsOrErrorShown ==
  [][ \A o \in CodeOutcomes :
        GenerateTestsRespond(o) =>
          /\ ~editor'.loadingTests
          /\ \/ /\ Truthy(o.text)
                /\ editor'.testCode = o.text
                /\ editor'.activeTab = "tests"
             \/ /\ Truthy(o.error)
                /\ editor'.testCode = TestsErrorPrefix \o o.error
             \/ /\ Truthy(o.detail)
                /\ editor'.testCode = TestsErrorPrefix \o o.detail
             \/ /\ o.thrown # <<>>
                /\ editor'.testCode \in {TestsFailedPrefix \o o.thrown,
                                         TestsFailedPrefix \o NetworkErrorText} ]_vars

\* C19 (amended): as C19, with the test code taken only from an OK response,
\* the message of whatever was thrown after '# Failed to generate tests: ',
\* and the fixed text 'Unknown error occurred' in the comment line when the
\* response carries neither test code with an OK status nor an error or
\* detail text; the tab changes only when test code was returned.
C19_TestsOrErrorOrFallbackShown ==
  [][ \A o \in CodeOutcomes :
        GenerateTestsRespond(o) =>
          /\ ~editor'.loadingTests
          /\ IF o.thrown # <<>>
             THEN /\ editor'.testCode =
                       TestsFailedPrefix \o (IF o.thrown = UNDEF THEN NetworkErrorText
                                             ELSE o.thrown)
                  /\ editor'.activeTab = editor.activeTab
             ELSE IF o.ok /\ Truthy(o.text)
             THEN /\ editor'.testCode = o.text
                  /\ editor'.activeTab = "tests"
             ELSE /\ editor'.activeTab = editor.activeTab
                  /\ editor'.testCode =
                       TestsErrorPrefix \o
                         (IF Truthy(o.error) THEN o.error
                          ELSE IF Truthy(o.detail) THEN o.detail
                          ELSE UnknownErrorText) ]_vars

\* Generate Tests completed with the backend's test code on the Tests tab
C19_Witness ==
  /\ GenerateTestsUrl \in editor.requested
  /\ ~editor.loadingTests
  /\ editor.testCode = <<"t">>
  /\ editor.activeTab = "tests"

\* C20: the URL Run Code requests, with the /api prefix stripped by the
\* rewrite, is the backend's documented route /code/execute.
C20_RunCodeReachesExecuteRoute ==
  \A url \in editor.requested :
    url = RunCodeUrl => Rewrite(url) = BackendExecuteRoute

\* the health rounds whose Promise.all has not resolved yet
RoundsInFlight == {r \in 1..Len(rounds) : ~rounds[r].done}

\* no request of the playground is in flight, so no effect is left to run
Quiescent ==
  /\ fetching = {}
  /\ keyAdd = Idle
  /\ upload.pc = "idle"
  /\ gen = Idle
  /\ RoundsInFlight = {}

\* C21: whenever the playground is quiescent, selectedModel is null exactly
\* when the displayed list is empty, and otherwise it is one of the models of
\* the displayed list.
C21_SelectionTracksDisplayedList ==
  Quiescent
    => IF filteredModels = <<>>
       THEN selectedModel = <<>>
       ELSE selectedModel # <<>> /\ selectedModel[1].id \in Ids(filteredModels)

\* C22: checkingModels is true exactly while a health round is in flight, and
\* once none is in flight modelHealthStatus holds the results of the round
\* that was started last.
C22_LatestRoundPublished ==
  /\ checkingModels <=> RoundsInFlight # {}
  /\ (rounds # <<>> /\ RoundsInFlight = {})
       => modelHealthStatus = Last(rounds).healthResults

\* the generate requests sent and not yet answered
GenerateInFlight == Len(generateRequests) - exchange.n

\* C23: at most one generate request is in flight; while one is, loading is
\* true and the input cannot change; and a send starts only when loading is
\* false and no generate request is in flight.
C23_OneGenerateInFlight ==
  /\ [](GenerateInFlight <= 1 /\ (GenerateInFlight = 1 => loading))
  /\ [][ /\ loading => input' = input
         /\ Len(generateRequests') > Len(generateRequests)
              => (~loading /\ gen = Idle /\ GenerateInFlight = 0) ]_vars

\* a second message sent after the first was answered, its request in flight
C23_Witness ==
  /\ sends = 2
  /\ exchange.n = 1
  /\ gen.pc = "generate"
  /\ loading
  /\ Len(generateRequests) = 2

\* C24: loading stays true while the save of an exchange is in flight; a
\* generate request is issued, and a save is sent, only when no save is in
\* flight; and the k-th save carries the k-th exchange: its last user message
\* is the prompt of the k-th generate request.
C24_SavesInExchangeOrder ==
  /\ [](gen.pc = "save" => loading)
  /\ [](\A k \in 1..Len(saves) :
          /\ k <= Len(generateRequests)
          /\ Len(saves[k].messages) >= 2
          /\ saves[k].messages[Len(saves[k].messages) - 1].role = "user"
          /\ saves[k].messages[Len(saves[k].messages) - 1].content
               = generateRequests[k].prompt
          /\ \A j \in 1..(k - 1) :
               Last(saves[j].messages).timestamp.iso < Last(saves[k].messages).timestamp.iso)
  /\ [][ /\ Len(generateRequests') > Len(generateRequests) => gen.pc # "save"
         /\ Len(saves') > Len(saves) => gen.pc # "save" ]_vars

\* the save of a second exchange in flight, the first one settled before the
\* second message was sent
C24_Witness ==
  /\ sends = 2
  /\ Len(saves) = 2
  /\ gen.pc = "save"
  /\ loading
  /\ saves[1].messages[1].content = generateRequests[1].prompt

====
